---- MODULE Spec2Model ----
(***************************************************************************)
(* Model of the attendance application in src/app.py (Flask + PostgreSQL). *)
(*                                                                         *)
(* Strings that the code inspects character by character (form fields,     *)
(* the X-Forwarded-For header) are sequences of one-character strings.     *)
(* Network addresses are single tokens that contain neither a comma nor    *)
(* white space.  Timestamps are whole numbers; NULL is the SQL NULL.  The   *)
(* flash messages are written without their accents.                      *)
(*                                                                         *)
(* Every HTTP request is served by a worker slot.  A request is split into *)
(* the steps between which another worker can act on the database: the     *)
(* before_request hook, the view up to and including its SELECT, and the   *)
(* INSERT/UPDATE with its COMMIT.  PostgreSQL makes an INSERT or UPDATE     *)
(* that meets an uncommitted write of the same row wait for that           *)
(* transaction, so a write and its commit are one atomic step against the  *)
(* committed table.                                                        *)
(***************************************************************************)
EXTENDS Integers, Sequences, FiniteSets, TLC

VARIABLES registros, acessos_negados, ips_permitidos, today, pc, req, loc, last, nreq, sucessos

vars == <<registros, acessos_negados, ips_permitidos, today, pc, req, loc, last, nreq, sucessos>>

(***************************** bounds **************************************)
NumWorkers == 2
MaxRequests == 3
MaxDay == 2
MaxTime == 2

Workers == 1..NumWorkers
Days == 1..MaxDay
Times == 1..MaxTime

(***************************** values **************************************)
NULL == 0
NoneStr == <<"None">>
CpfLen == 11

\* str.isdigit() holds of the ASCII digits and of other Unicode digits, such
\* as the superscript two, written "sup2" here.
AsciiDigits == {"0", "1", "2", "3", "4", "5", "6", "7", "8", "9"}
IsDigitChars == AsciiDigits \cup {"sup2"}
Whitespace == {" ", "\t"}

CPF_ANA == <<"1", "2", "3", "4", "5", "6", "7", "8", "9", "0", "9">>
CPF_BIA == <<"5", "2", "9", "9", "8", "2", "2", "4", "7", "2", "5">>
PIN_ANA == <<"1", "2", "3", "4">>
PIN_BIA == <<"5", "6", "7", "8">>

bolsistas ==
    { [cpf |-> CPF_ANA, nome |-> "Ana", pin |-> PIN_ANA],
      [cpf |-> CPF_BIA, nome |-> "Bia", pin |-> PIN_BIA] }

NoBolsista == [cpf |-> <<>>, nome |-> "", pin |-> <<>>]
NoRow == [cpf |-> <<>>, dia |-> 0, nome |-> "", entrada |-> NULL, saida |-> NULL]

IP_A == "10.0.0.1"
IP_B == "10.0.0.2"

AllowLists == { {}, {IP_A} }
RemoteAddrs == { <<IP_A>>, <<IP_B>> }
XffHeaders == { NoneStr, <<IP_B, ",", " ", IP_A>> }
UserAgents == { "Mozilla" }
Paths == { "/health", "/", "/registrar", "/admin" }

RawCpfs ==
    { <<"1", "2", "3", ".", "4", "5", "6", ".", "7", "8", "9", "-", "0", "9">>,
      CPF_BIA,
      <<"1", "2", "3", ".", "4", "5", "6", ".", "7", "8", "9", "-", "0">>,
      <<"1", "1", "1", "4", "4", "4", "7", "7", "7", "3", "5">> }
RawPins == { <<"1", "2", "-", "3", "4">>, PIN_BIA }
\* The form field action: "None" is the absent field, "ponto" a value that the
\* form does not offer.
Actions == { "entrada", "saida", "ponto", "None" }

MsgEntradaOk == "Entrada registrada com sucesso."
MsgEntradaJa == "Entrada ja registrada hoje."
MsgSaidaOk == "Saida registrada com sucesso."
MsgSaidaJa == "Saida ja registrada hoje."
MsgSemEntrada == "Nao ha entrada registrada hoje."
MsgCpfInvalido == "CPF invalido."
MsgCredInvalida == "CPF ou PIN invalido."

\* The arguments of the template admin.html, and total_seconds, the local that
\* total_tempo is the rendering of.
NoBody == [start |-> 0, end |-> 0, records |-> <<>>, total_registros |-> 0,
           total_seconds |-> 0, total_tempo |-> <<>>]
NoResp == [status |-> 0, cat |-> "", msg |-> "", body |-> NoBody]
\* A request: its path; gate, the outcome of the before_request hook, and ip,
\* the address that the hook looked up in a non-empty allow-list; the form
\* fields as sent; db, the tables that the request has read or written.
NoReq == [path |-> "", ip |-> <<>>, gate |-> "", cpf |-> NoneStr, pin |-> NoneStr,
          action |-> "", db |-> {}]
\* The locals of registrar_entrada and registrar_saida.
NoLoc == [cpf |-> <<>>, nome |-> "", hoje |-> 0, agora |-> NULL, r |-> NoRow]
NoRet == [ok |-> FALSE, msg |-> ""]

SetMin(S) == CHOOSE x \in S : \A y \in S : x <= y
SetMax(S) == CHOOSE x \in S : \A y \in S : x >= y

(***************************** utilities ***********************************)
IsDigit(ch) == ch \in IsDigitChars

only_digits(s) == SelectSeq(IF s = NoneStr THEN <<>> ELSE s, IsDigit)

SplitFirst(s) ==
    LET commas == { i \in 1..Len(s) : s[i] = "," }
    IN  IF commas = {} THEN s ELSE SubSeq(s, 1, SetMin(commas) - 1)

Strip(s) ==
    LET solid == { i \in 1..Len(s) : s[i] \notin Whitespace }
    IN  IF solid = {} THEN <<>> ELSE SubSeq(s, SetMin(solid), SetMax(solid))

get_client_ip_sem_cabecalho(xff, remote_addr) == remote_addr

get_client_ip(xff, remote_addr) ==
    IF xff # NoneStr /\ xff # <<>> THEN Strip(SplitFirst(xff)) ELSE remote_addr

load_allowed_ips == { <<ip>> : ip \in ips_permitidos }

\* The INSERT of registrar_ip_negado, when it succeeds: one row at the end of
\* the log (id is a SERIAL).
registrar_ip_negado_sobrescreve(log, ip, rota, ua) ==
    IF log = <<>> THEN <<[ip |-> ip, rota |-> rota, user_agent |-> ua]>>
    ELSE [log EXCEPT ![Len(log)] = [ip |-> ip, rota |-> rota, user_agent |-> ua]]

registrar_ip_negado(log, ip, rota, ua) ==
    Append(log, [ip |-> ip, rota |-> rota, user_agent |-> ua])

restrict_by_ip_sem_health(path, client_ip, allowed) ==
    IF allowed = {} THEN "open"
    ELSE IF client_ip \notin allowed THEN "denied"
    ELSE "allowed"

restrict_by_ip_sem_bloqueio(path, client_ip, allowed) ==
    IF path = "/health" THEN "skip"
    ELSE IF allowed = {} THEN "open"
    ELSE "allowed"

restrict_by_ip(path, client_ip, allowed) ==
    IF path = "/health" THEN "skip"
    ELSE IF allowed = {} THEN "open"
    ELSE IF client_ip \notin allowed THEN "denied"
    ELSE "allowed"

forbidden == [status |-> 403, cat |-> "", msg |-> "403 - Acesso negado", body |-> NoBody]

Redirect(ok, msg) ==
    [status |-> 302, cat |-> IF ok THEN "success" ELSE "error", msg |-> msg, body |-> NoBody]

ServerError == [status |-> 500, cat |-> "", msg |-> "Internal Server Error", body |-> NoBody]

get_bolsista(cpf) ==
    IF \E b \in bolsistas : b.cpf = cpf
    THEN CHOOSE b \in bolsistas : b.cpf = cpf
    ELSE NoBolsista

(***************************** table registros *****************************)
Matching(regs, cpf, dia) == { row \in regs : row.cpf = cpf /\ row.dia = dia }

SelectRegistro(regs, cpf, dia) ==
    IF Matching(regs, cpf, dia) = {} THEN NoRow
    ELSE CHOOSE row \in Matching(regs, cpf, dia) : TRUE

PrimaryKeyFree_sempre(regs, cpf, dia) == TRUE

PrimaryKeyFree(regs, cpf, dia) == Matching(regs, cpf, dia) = {}

InsertRegistro_sem_entrada(regs, cpf, dia, nome, entrada) ==
    regs \cup { [cpf |-> cpf, dia |-> dia, nome |-> nome, entrada |-> NULL, saida |-> NULL] }

InsertRegistro(regs, cpf, dia, nome, entrada) ==
    regs \cup { [cpf |-> cpf, dia |-> dia, nome |-> nome, entrada |-> entrada, saida |-> NULL] }

UpdateEntrada(regs, cpf, dia, nome, entrada) ==
    { IF row.cpf = cpf /\ row.dia = dia
      THEN [row EXCEPT !.entrada = entrada, !.nome = nome]
      ELSE row : row \in regs }

UpdateSaida_sem_dia(regs, cpf, dia, saida) ==
    { IF row.cpf = cpf
      THEN [row EXCEPT !.saida = saida]
      ELSE row : row \in regs }

UpdateSaida(regs, cpf, dia, saida) ==
    { IF row.cpf = cpf /\ row.dia = dia
      THEN [row EXCEPT !.saida = saida]
      ELSE row : row \in regs }


(***************************** admin ***************************************)
TZ_BR == "America/Sao_Paulo"

\* An aware datetime: the instant and the zone it is shown in.  NULL stays NULL.
utc_to_local(dt_utc) ==
    IF dt_utc = NULL THEN NULL ELSE [instant |-> dt_utc, tzinfo |-> TZ_BR]

AdminRows_exclusivo(regs, start, end) ==
    { row \in regs : (start # 0 => row.dia > start) /\ (end # 0 => row.dia < end) }

\* The rows of the admin query; an absent bound (0) adds no condition.
AdminRows(regs, start, end) ==
    { row \in regs : (start # 0 => row.dia >= start) /\ (end # 0 => row.dia <= end) }

RowSeconds_sem_max(row) ==
    IF row.entrada # NULL /\ row.saida # NULL
    THEN utc_to_local(row.saida).instant - utc_to_local(row.entrada).instant
    ELSE 0

RowSeconds(row) ==
    IF row.entrada # NULL /\ row.saida # NULL
    THEN LET ent == utc_to_local(row.entrada)
             sai == utc_to_local(row.saida)
             diff == sai.instant - ent.instant
         IN  IF diff > 0 THEN diff ELSE 0
    ELSE 0

RECURSIVE TotalSeconds(_)
TotalSeconds(rows) ==
    IF rows = {} THEN 0
    ELSE LET row == CHOOSE x \in rows : TRUE
         IN  RowSeconds(row) + TotalSeconds(rows \ {row})

\* ORDER BY dia DESC, nome: names are compared by their place in the
\* collation of the database.
Collation == <<"Ana", "Bia">>
Collate(nome) == CHOOSE i \in 1..Len(Collation) : Collation[i] = nome

ComesBefore(a, b) ==
    a.dia > b.dia \/ (a.dia = b.dia /\ Collate(a.nome) < Collate(b.nome))

RECURSIVE OrderBy(_)
OrderBy(rows) ==
    IF rows = {} THEN <<>>
    ELSE LET first == CHOOSE r \in rows : \A o \in rows : ~ComesBefore(o, r)
         IN  <<first>> \o OrderBy(rows \ {first})

\* The decimal digits of a natural number, and the format specification 02d.
DecimalDigit(d) == <<"0", "1", "2", "3", "4", "5", "6", "7", "8", "9">>[d + 1]

RECURSIVE Decimal(_)
Decimal(n) == IF n < 10 THEN <<DecimalDigit(n)>> ELSE Decimal(n \div 10) \o <<DecimalDigit(n % 10)>>

Format02d(n) == IF n < 10 THEN <<"0">> \o Decimal(n) ELSE Decimal(n)

format_hhmm_from_seconds_mod24(seconds) ==
    IF seconds = 0 \/ seconds <= 0 THEN <<"0", "0", ":", "0", "0">>
    ELSE LET m == seconds \div 60
         IN  Format02d((m \div 60) % 24) \o <<":">> \o Format02d(m % 60)

format_hhmm_from_seconds(seconds) ==
    IF seconds = 0 \/ seconds <= 0 THEN <<"0", "0", ":", "0", "0">>
    ELSE LET m == seconds \div 60
         IN  Format02d(m \div 60) \o <<":">> \o Format02d(m % 60)

\* Day d of the model is the d-th of January 2024; instants are seconds from
\* the midnight (UTC) that begins that month, and Sao Paulo is three hours
\* behind UTC.  The dash stands for the em dash of the code.
format_ddmmyyyy(dia) ==
    IF dia = 0 THEN <<>>
    ELSE Format02d(dia) \o <<"-", "0", "1", "-", "2", "0", "2", "4">>

format_hhmm(dt_utc) ==
    IF dt_utc = NULL THEN <<"-">>
    ELSE LET wall == (utc_to_local(dt_utc).instant - 3 * 3600) % 86400
         IN  Format02d(wall \div 3600) \o <<":">> \o Format02d((wall \div 60) % 60)

\* One element of records: the body of the loop over the rows.
Record(r) ==
    [nome |-> r.nome,
     dia |-> format_ddmmyyyy(r.dia),
     entrada |-> format_hhmm(r.entrada),
     saida |-> format_hhmm(r.saida),
     tempo |-> IF r.entrada # NULL /\ r.saida # NULL
               THEN format_hhmm_from_seconds(RowSeconds(r)) ELSE <<"-">>]

(***************************** registrar_entrada / registrar_saida *********)
\* The part of registrar_entrada inside the cursor block up to the branch on
\* the selected row: the SELECT and the early return.  ret = NoRet means
\* that the function goes on to its INSERT or UPDATE.
registrar_entrada_select_saida_testada(regs, cpf, hoje, agora) ==
    LET r == SelectRegistro(regs, cpf, hoje)
    IN  IF r # NoRow /\ r.saida # NULL
        THEN [ret |-> [ok |-> FALSE, msg |-> MsgEntradaJa], r |-> r, regs |-> regs]
        ELSE [ret |-> NoRet, r |-> r, regs |-> regs]

registrar_entrada_select(regs, cpf, hoje, agora) ==
    LET r == SelectRegistro(regs, cpf, hoje)
    IN  IF r # NoRow /\ r.entrada # NULL
        THEN [ret |-> [ok |-> FALSE, msg |-> MsgEntradaJa], r |-> r, regs |-> regs]
        ELSE [ret |-> NoRet, r |-> r, regs |-> regs]

\* Mutants of registrar_saida_select: the first check dropped, the second
\* check dropped, and the UPDATE issued before the second check.
registrar_saida_select_sem_entrada(regs, cpf, hoje, agora) ==
    LET r == SelectRegistro(regs, cpf, hoje)
    IN  IF r.saida # NULL
        THEN [ret |-> [ok |-> FALSE, msg |-> MsgSaidaJa], r |-> r, regs |-> regs]
        ELSE [ret |-> NoRet, r |-> r, regs |-> regs]

registrar_saida_select_sem_saida(regs, cpf, hoje, agora) ==
    LET r == SelectRegistro(regs, cpf, hoje)
    IN  IF r = NoRow \/ r.entrada = NULL
        THEN [ret |-> [ok |-> FALSE, msg |-> MsgSemEntrada], r |-> r, regs |-> regs]
        ELSE [ret |-> NoRet, r |-> r, regs |-> regs]

registrar_saida_select_update_antes(regs, cpf, hoje, agora) ==
    LET r == SelectRegistro(regs, cpf, hoje)
    IN  IF r = NoRow \/ r.entrada = NULL
        THEN [ret |-> [ok |-> FALSE, msg |-> MsgSemEntrada], r |-> r, regs |-> regs]
        ELSE IF r.saida # NULL
        THEN [ret |-> [ok |-> FALSE, msg |-> MsgSaidaJa], r |-> r,
              regs |-> UpdateSaida(regs, cpf, hoje, agora)]
        ELSE [ret |-> NoRet, r |-> r, regs |-> regs]

\* The SELECT and the two early returns of registrar_saida.
registrar_saida_select(regs, cpf, hoje, agora) ==
    LET r == SelectRegistro(regs, cpf, hoje)
    IN  IF r = NoRow \/ r.entrada = NULL
        THEN [ret |-> [ok |-> FALSE, msg |-> MsgSemEntrada], r |-> r, regs |-> regs]
        ELSE IF r.saida # NULL
        THEN [ret |-> [ok |-> FALSE, msg |-> MsgSaidaJa], r |-> r, regs |-> regs]
        ELSE [ret |-> NoRet, r |-> r, regs |-> regs]

cpf_invalido(cpf) == Len(cpf) # CpfLen

\* The test that sends a punch to registrar_entrada.
action_entrada_por_omissao(action) == action # "saida"

action_entrada(action) == action = "entrada"

credencial_invalida_sem_pin(bolsista, pin) == bolsista = NoBolsista

credencial_invalida(bolsista, pin) == bolsista = NoBolsista \/ bolsista.pin # pin

(***************************** initial state *******************************)
\* sucessos counts, for each person, day and kind of punch, the calls of
\* registrar_entrada and registrar_saida that have returned True.
Punches == { <<b.cpf, d, op>> : b \in bolsistas, d \in Days, op \in {"entrada", "saida"} }

NoLast == [req |-> NoReq, resp |-> NoResp]

Init ==
    /\ registros = {}
    /\ acessos_negados = <<>>
    /\ ips_permitidos \in AllowLists
    /\ today = 1
    /\ pc = [w \in Workers |-> "idle"]
    /\ req = [w \in Workers |-> NoReq]
    /\ loc = [w \in Workers |-> NoLoc]
    /\ last = NoLast
    /\ nreq = 0
    /\ sucessos = [k \in Punches |-> 0]

\* Worker w sends the response of request q and is free again; last keeps the
\* request and its response until the next response is sent.
Respond(w, q, response) ==
    /\ last' = [req |-> q, resp |-> response]
    /\ req' = [req EXCEPT ![w] = NoReq]
    /\ loc' = [loc EXCEPT ![w] = NoLoc]
    /\ pc' = [pc EXCEPT ![w] = "idle"]

(***************************** requests ************************************)
\* The before_request hook on worker w for the received request q0: the
\* request is answered 403, with or without a row in acessos_negados (a
\* failure of that INSERT is swallowed), or goes on to its view.  The address
\* and the allow-list are looked up only when the path is not /health.
Hook(w, q0, path, xff, remote_addr, ua) ==
    LET client_ip == get_client_ip(xff, remote_addr)
        allowed == load_allowed_ips
        gate == restrict_by_ip(path, client_ip, allowed)
        q == [q0 EXCEPT !.path = path, !.gate = gate,
                        !.ip = IF gate \in {"denied", "allowed"} THEN client_ip ELSE <<>>,
                        !.db = IF gate = "skip" THEN {} ELSE {"ips_permitidos"}]
    IN  IF gate = "denied"
        THEN \E logged \in BOOLEAN :
               IF logged
               THEN /\ acessos_negados' = registrar_ip_negado(acessos_negados, client_ip, path, ua)
                    /\ Respond(w, [q EXCEPT !.db = @ \cup {"acessos_negados"}], forbidden)
               ELSE /\ acessos_negados' = acessos_negados
                    /\ Respond(w, q, forbidden)
        ELSE /\ req' = [req EXCEPT ![w] = q]
             /\ pc' = [pc EXCEPT ![w] = "view"]
             /\ UNCHANGED <<acessos_negados, loc, last>>

\* A request reaches the idle worker w and the before_request hook runs.
Request(w) ==
    /\ pc[w] = "idle"
    /\ nreq < MaxRequests
    /\ nreq' = nreq + 1
    /\ \E path \in Paths, xff \in XffHeaders, remote_addr \in RemoteAddrs, ua \in UserAgents :
         Hook(w, NoReq, path, xff, remote_addr, ua)
    /\ UNCHANGED <<registros, ips_permitidos, today, sucessos>>

health(w) ==
    /\ pc[w] = "view"
    /\ req[w].path = "/health"
    /\ Respond(w, req[w], [status |-> 200, cat |-> "", msg |-> "ok", body |-> NoBody])
    /\ UNCHANGED <<registros, acessos_negados, ips_permitidos, today, nreq, sucessos>>

index(w) ==
    /\ pc[w] = "view"
    /\ req[w].path = "/"
    /\ Respond(w, req[w], [status |-> 200, cat |-> "", msg |-> "index.html", body |-> NoBody])
    /\ UNCHANGED <<registros, acessos_negados, ips_permitidos, today, nreq, sucessos>>

\* The view registrar up to and including the SELECT of registrar_entrada or
\* registrar_saida.  hoje is date.today(); agora, the value of utc_now(), is
\* any of Times: the wall clock can be set back, and agora is read before the
\* connection is opened, so that it is not ordered with the timestamps that
\* other requests have committed.
registrar(w) ==
    /\ pc[w] = "view"
    /\ req[w].path = "/registrar"
    /\ \E cpf_in \in RawCpfs, pin_in \in RawPins :
         LET cpf == only_digits(cpf_in)
             pin == only_digits(pin_in)
             bolsista == get_bolsista(cpf)
             form == [req[w] EXCEPT !.cpf = cpf_in, !.pin = pin_in]
         IN  IF cpf_invalido(cpf)
             THEN /\ Respond(w, form, Redirect(FALSE, MsgCpfInvalido))
                  /\ UNCHANGED registros
             ELSE IF credencial_invalida(bolsista, pin)
             THEN /\ Respond(w, [form EXCEPT !.db = @ \cup {"bolsistas"}],
                             Redirect(FALSE, MsgCredInvalida))
                  /\ UNCHANGED registros
             ELSE \E action \in Actions, agora \in Times :
                  LET hoje == today
                      sel == IF action_entrada(action)
                             THEN registrar_entrada_select(registros, cpf, hoje, agora)
                             ELSE registrar_saida_select(registros, cpf, hoje, agora)
                      q == [form EXCEPT !.action = action,
                                        !.db = @ \cup {"bolsistas", "registros"}]
                  IN  /\ registros' = sel.regs
                      /\ IF sel.ret # NoRet
                         THEN Respond(w, q, Redirect(sel.ret.ok, sel.ret.msg))
                         ELSE /\ req' = [req EXCEPT ![w] = q]
                              /\ loc' = [loc EXCEPT ![w] = [cpf |-> cpf, nome |-> bolsista.nome,
                                                             hoje |-> hoje, agora |-> agora,
                                                             r |-> sel.r]]
                              /\ pc' = [pc EXCEPT ![w] = IF action_entrada(action)
                                                          THEN "entrada_write" ELSE "saida_write"]
                              /\ UNCHANGED last
    /\ UNCHANGED <<acessos_negados, ips_permitidos, today, nreq, sucessos>>

\* The view admin: the range query, the loop over its rows and the totals.
admin(w) ==
    /\ pc[w] = "view"
    /\ req[w].path = "/admin"
    /\ \E start \in {0} \cup Days, end \in {0} \cup Days :
         LET rows == OrderBy(AdminRows(registros, start, end))
             records == [i \in 1..Len(rows) |-> Record(rows[i])]
             total_seconds == TotalSeconds({ rows[i] : i \in 1..Len(rows) })
         IN  Respond(w, [req[w] EXCEPT !.db = @ \cup {"registros"}],
                     [status |-> 200, cat |-> "", msg |-> "admin.html",
                      body |-> [start |-> start, end |-> end,
                                records |-> records,
                                total_registros |-> Len(records),
                                total_seconds |-> total_seconds,
                                total_tempo |-> format_hhmm_from_seconds(total_seconds)]])
    /\ UNCHANGED <<registros, acessos_negados, ips_permitidos, today, nreq, sucessos>>

\* The INSERT or UPDATE of registrar_entrada, the COMMIT and the return.  An
\* INSERT that meets a committed row with its key raises UniqueViolation: the
\* connection block rolls back and the request ends as a server error.
entrada_write(w) ==
    /\ pc[w] = "entrada_write"
    /\ LET l == loc[w]
           k == <<l.cpf, l.hoje, "entrada">>
       IN  IF l.r = NoRow
           THEN IF PrimaryKeyFree(registros, l.cpf, l.hoje)
                THEN /\ registros' = InsertRegistro(registros, l.cpf, l.hoje, l.nome, l.agora)
                     /\ sucessos' = [sucessos EXCEPT ![k] = @ + 1]
                     /\ Respond(w, req[w], Redirect(TRUE, MsgEntradaOk))
                ELSE /\ registros' = registros
                     /\ sucessos' = sucessos
                     /\ Respond(w, req[w], ServerError)
           ELSE /\ registros' = UpdateEntrada(registros, l.cpf, l.hoje, l.nome, l.agora)
                /\ sucessos' = [sucessos EXCEPT ![k] = @ + 1]
                /\ Respond(w, req[w], Redirect(TRUE, MsgEntradaOk))
    /\ UNCHANGED <<acessos_negados, ips_permitidos, today, nreq>>

\* The UPDATE of registrar_saida, the COMMIT and the return.
saida_write(w) ==
    /\ pc[w] = "saida_write"
    /\ registros' = UpdateSaida(registros, loc[w].cpf, loc[w].hoje, loc[w].agora)
    /\ sucessos' = [sucessos EXCEPT ![<<loc[w].cpf, loc[w].hoje, "saida">>] = @ + 1]
    /\ Respond(w, req[w], Redirect(TRUE, MsgSaidaOk))
    /\ UNCHANGED <<acessos_negados, ips_permitidos, today, nreq>>

\* date.today() moves on to the next calendar day.
NextDay ==
    /\ today < MaxDay
    /\ today' = today + 1
    /\ UNCHANGED <<registros, acessos_negados, ips_permitidos, pc, req, loc, last, nreq, sucessos>>

Next ==
    \/ \E w \in Workers : Request(w)
    \/ \E w \in Workers : health(w)
    \/ \E w \in Workers : index(w)
    \/ \E w \in Workers : registrar(w)
    \/ \E w \in Workers : admin(w)
    \/ \E w \in Workers : entrada_write(w)
    \/ \E w \in Workers : saida_write(w)
    \/ NextDay

Spec == Init /\ [][Next]_vars

(***************************** the hook alone ******************************)
\* The before_request hook applied to one received request, over the headers,
\* peer addresses and allow-lists below, and the view health, which needs no
\* table.  The received request waits on an idle worker with its header and
\* peer address.
GateXffHeaders ==
    { NoneStr, <<>>, <<IP_A>>, <<IP_B>>, <<IP_B, ",", " ", IP_A>>, <<IP_A, ",", IP_B>>,
      <<" ", IP_A, "\t", ",", IP_B>>, <<",", IP_A>> }
GateAllowLists == { {}, {IP_A}, {IP_B}, {IP_A, IP_B} }

Received(path, xff, remote_addr) ==
    [path |-> path, ip |-> <<>>, gate |-> "", cpf |-> NoneStr, pin |-> NoneStr,
     action |-> "", db |-> {}, xff |-> xff, remote_addr |-> remote_addr]

InitGate ==
    /\ registros = {}
    /\ acessos_negados = <<>>
    /\ ips_permitidos \in GateAllowLists
    /\ today = 1
    /\ pc = [w \in Workers |-> "idle"]
    /\ \E w0 \in Workers, path \in Paths, xff \in GateXffHeaders, remote_addr \in RemoteAddrs :
         req = [w \in Workers |-> IF w = w0 THEN Received(path, xff, remote_addr) ELSE NoReq]
    /\ loc = [w \in Workers |-> NoLoc]
    /\ last = NoLast
    /\ nreq = 0
    /\ sucessos = [k \in Punches |-> 0]

RequestGate(w) ==
    /\ pc[w] = "idle"
    /\ req[w].path # ""
    /\ nreq = 0
    /\ nreq' = nreq + 1
    /\ \E ua \in UserAgents :
         Hook(w, req[w], req[w].path, req[w].xff, req[w].remote_addr, ua)
    /\ UNCHANGED <<registros, ips_permitidos, today, sucessos>>

NextGate ==
    \/ \E w \in Workers : RequestGate(w)
    \/ \E w \in Workers : health(w)

SpecGate == InitGate /\ [][NextGate]_vars

(***************************** the view admin alone ************************)
\* GET /admin over ledgers of up to three records.  The records have an entry
\* and, if any, an exit that can precede the entry (registrar_saida compares
\* nothing); the instants are chosen so that the elapsed times go from less
\* than a minute to more than a day.  The request has passed the hook.
AdminEntradas == { 1, 3601 }
AdminSaidas == { NULL, 1830, 7201, 90001, 360001 }

AdminLedgerRows ==
    { [cpf |-> b.cpf, dia |-> d, nome |-> b.nome, entrada |-> e, saida |-> x] :
          b \in bolsistas, d \in Days, e \in AdminEntradas, x \in AdminSaidas }

AdminLedgers ==
    { regs \in {{}} \cup { {r1, r2, r3} : r1 \in AdminLedgerRows, r2 \in AdminLedgerRows,
                                          r3 \in AdminLedgerRows } :
          \A a \in regs, b \in regs : (a.cpf = b.cpf /\ a.dia = b.dia) => a = b }

InitAdmin ==
    /\ registros \in AdminLedgers
    /\ acessos_negados = <<>>
    /\ ips_permitidos = {}
    /\ today = MaxDay
    /\ pc = [w \in Workers |-> IF w = 1 THEN "view" ELSE "idle"]
    /\ req = [w \in Workers |->
                IF w = 1 THEN [NoReq EXCEPT !.path = "/admin", !.gate = "open",
                                            !.db = {"ips_permitidos"}]
                ELSE NoReq]
    /\ loc = [w \in Workers |-> NoLoc]
    /\ last = NoLast
    /\ nreq = 1
    /\ sucessos = [k \in Punches |->
                     IF \E row \in registros :
                            /\ row.cpf = k[1] /\ row.dia = k[2]
                            /\ (k[3] = "saida" => row.saida # NULL)
                     THEN 1 ELSE 0]

NextAdmin == \E w \in Workers : admin(w)

SpecAdmin == InitAdmin /\ [][NextAdmin]_vars

(***************************** properties **********************************)
\* The step of worker w in which the view registrar runs, for the person cpf
\* and the day today, with the given action field.
RegistrarStep(w) == pc[w] = "view" /\ req[w].path = "/registrar" /\ pc'[w] # "view"

\* The request that the step RegistrarStep(w) was serving.
Served(w) == IF pc'[w] = "idle" THEN last'.req ELSE req'[w]

HasEntrada(regs, cpf, dia) == SelectRegistro(regs, cpf, dia).entrada # NULL
HasSaida(regs, cpf, dia) == SelectRegistro(regs, cpf, dia).saida # NULL

Authenticated(q) ==
    /\ Len(only_digits(q.cpf)) = CpfLen
    /\ \E b \in bolsistas : b.cpf = only_digits(q.cpf) /\ b.pin = only_digits(q.pin)

Answered(w, response) == pc'[w] = "idle" /\ last'.resp = response

\* Entries that are recorded stay as they are.
EntradasKept ==
    \A row \in registros :
        row.entrada # NULL =>
            SelectRegistro(registros', row.cpf, row.dia).entrada = row.entrada

\* C1: recordEntry called twice for a person on a day: a call that finds no
\* record for the person and day, and whose INSERT meets none, returns success
\* and stores its timestamp as the entry; the entry then stays, and a call that
\* finds it returns 'Entrada ja registrada hoje.' and leaves the ledger, and so
\* the entry written by the first call, unchanged.
C1_EntradaTwice ==
    [][ /\ \A w \in Workers :
             /\ (RegistrarStep(w) /\ Authenticated(Served(w)) /\ Served(w).action = "entrada") =>
                    IF HasEntrada(registros, only_digits(Served(w).cpf), today)
                    THEN /\ Answered(w, Redirect(FALSE, MsgEntradaJa))
                         /\ registros' = registros
                    ELSE /\ pc'[w] = "entrada_write"
                         /\ registros' = registros
             /\ (pc[w] = "entrada_write" /\ pc'[w] # "entrada_write"
                   /\ SelectRegistro(registros, loc[w].cpf, loc[w].hoje) = NoRow) =>
                    /\ Answered(w, Redirect(TRUE, MsgEntradaOk))
                    /\ SelectRegistro(registros', loc[w].cpf, loc[w].hoje).entrada = loc[w].agora
        /\ EntradasKept ]_vars

\* C1 witness: a second recordEntry of the day has been refused.
C1_Witness ==
    /\ last.resp = Redirect(FALSE, MsgEntradaJa)
    /\ last.req.action = "entrada"
    /\ HasEntrada(registros, only_digits(last.req.cpf), today)

\* C2: a recordExit that finds no entry for the person and day returns
\* 'Nao ha entrada registrada hoje.' and leaves the ledger unchanged, so no
\* record is created.
C2_SaidaSemEntrada ==
    [][ \A w \in Workers :
          (RegistrarStep(w) /\ Authenticated(Served(w)) /\ Served(w).action # "entrada"
             /\ ~HasEntrada(registros, only_digits(Served(w).cpf), today)) =>
                /\ Answered(w, Redirect(FALSE, MsgSemEntrada))
                /\ registros' = registros ]_vars

\* C2 witness: an exit was refused for want of an entry, and the person has no
\* record for the day.
C2_Witness ==
    /\ last.resp = Redirect(FALSE, MsgSemEntrada)
    /\ last.req.action # "entrada"
    /\ SelectRegistro(registros, only_digits(last.req.cpf), today) = NoRow

\* C3: after an entry, a recordExit that finds no exit goes on to its UPDATE,
\* which returns success and stores its timestamp as the exit; a recordExit
\* that finds the exit returns 'Saida ja registrada hoje.' and leaves the
\* ledger, and so the stored exit, unchanged.
C3_SaidaTwice ==
    [][ \A w \in Workers :
          /\ (RegistrarStep(w) /\ Authenticated(Served(w)) /\ Served(w).action # "entrada"
                /\ HasEntrada(registros, only_digits(Served(w).cpf), today)) =>
                 IF HasSaida(registros, only_digits(Served(w).cpf), today)
                 THEN /\ Answered(w, Redirect(FALSE, MsgSaidaJa))
                      /\ registros' = registros
                 ELSE /\ pc'[w] = "saida_write"
                      /\ registros' = registros
          /\ (pc[w] = "saida_write" /\ pc'[w] # "saida_write") =>
                 /\ Answered(w, Redirect(TRUE, MsgSaidaOk))
                 /\ SelectRegistro(registros', loc[w].cpf, loc[w].hoje).saida = loc[w].agora ]_vars

\* C3 witness: a second recordExit of the day has been refused.
C3_Witness ==
    /\ last.resp = Redirect(FALSE, MsgSaidaJa)
    /\ HasSaida(registros, only_digits(last.req.cpf), today)

\* C4: every record with an exit has an entry, and its exit is not earlier
\* than its entry.
C4_SaidaAposEntrada ==
    \A row \in registros :
        row.saida # NULL => (row.entrada # NULL /\ row.saida >= row.entrada)

\* C5: for every person and day at most one recordEntry and at most one
\* recordExit returns success.
C5_UmSucesso == \A k \in Punches : sucessos[k] <= 1

\* C6: the ledger holds at most one record for each person and day.
C6_ChaveUnica ==
    \A r1 \in registros, r2 \in registros :
        (r1.cpf = r2.cpf /\ r1.dia = r2.dia) => r1 = r2

\* C6 witness: two entries raced for the same person and day, and the INSERT
\* of the second was refused by the primary key.
C6_Witness ==
    /\ last.resp = ServerError
    /\ last.req.action = "entrada"
    /\ Cardinality(Matching(registros, only_digits(last.req.cpf), today)) = 1

\* C7: the steps of a POST /registrar that ends in an error flash leave the
\* ledger unchanged: the before_request hook of any request, and the step of
\* the view that answers with the error.
C7_ErroSemMudanca ==
    [][ \A w \in Workers :
          /\ (pc[w] = "idle" /\ nreq' # nreq /\ (pc'[w] # "idle" \/ last' # last)) =>
                 registros' = registros
          /\ (RegistrarStep(w) /\ pc'[w] = "idle" /\ last'.resp.cat = "error") =>
                 /\ last'.resp.msg \in {MsgCpfInvalido, MsgCredInvalida, MsgEntradaJa,
                                       MsgSaidaJa, MsgSemEntrada}
                 /\ registros' = registros ]_vars

\* C7 witness: a punch was refused while the ledger held a record with an exit.
C7_Witness ==
    /\ last.resp = Redirect(FALSE, MsgSaidaJa)
    /\ \E row \in registros : row.saida # NULL

\* The view of the request q ran: the before_request hook let it through.
ViewRan(q) == q.path = "/registrar" /\ q.gate \in {"open", "allowed"}

\* C8: a POST /registrar reaches the ledger only with an identifier of exactly
\* 11 digits after normalisation and the PIN stored for it; an identifier of
\* another length is refused with 'CPF invalido.' before the credential table
\* and the ledger are read.
C8_SoAutenticado ==
    /\ \A w \in Workers :
          pc[w] \in {"entrada_write", "saida_write"} =>
              (req[w].path = "/registrar" /\ Authenticated(req[w]))
    /\ (last.req.path = "/registrar" /\ "registros" \in last.req.db) =>
          Authenticated(last.req)
    /\ (ViewRan(last.req) /\ Len(only_digits(last.req.cpf)) # CpfLen) =>
          /\ last.resp = Redirect(FALSE, MsgCpfInvalido)
          /\ "bolsistas" \notin last.req.db
          /\ "registros" \notin last.req.db
    /\ (ViewRan(last.req) /\ ~Authenticated(last.req)) =>
          last.resp.msg \in {MsgCpfInvalido, MsgCredInvalida}

\* C8 witness: an identifier of 13 characters and 10 digits was refused
\* without any read of the credential table or the ledger.
C8_Witness ==
    /\ last.resp = Redirect(FALSE, MsgCpfInvalido)
    /\ Len(last.req.cpf) > CpfLen
    /\ last.req.db = {"ips_permitidos"}

\* The before_request hook admitted the request q.
GatePassed(q) ==
    /\ "ips_permitidos" \in q.db
    /\ (ips_permitidos = {} \/ q.ip \in load_allowed_ips)

\* C9: a request for a path other than /health is in a view only after the
\* hook admitted it; a request whose address is absent from a non-empty
\* allow-list is answered with the 403 response and has read neither the
\* credential table nor the ledger.
C9_GateAntes ==
    /\ \A w \in Workers :
          (pc[w] # "idle" /\ req[w].path # "/health") => GatePassed(req[w])
    /\ (last.req.path \notin {"", "/health"}) =>
          IF ips_permitidos # {} /\ last.req.ip \notin load_allowed_ips
          THEN /\ last.resp = forbidden
               /\ last.req.db \subseteq {"ips_permitidos", "acessos_negados"}
          ELSE /\ GatePassed(last.req)
               /\ last.resp.status # 403

\* C9 witness: a POST /registrar from an address outside the allow-list was
\* answered 403.
C9_Witness ==
    /\ last.req.path = "/registrar"
    /\ last.req.gate = "denied"
    /\ last.resp = forbidden
    /\ last.req.ip \notin load_allowed_ips

\* The first comma-separated entry of s: its longest prefix without a comma.
FirstEntry(s) ==
    LET n == CHOOSE k \in 0..Len(s) :
                 /\ \A i \in 1..k : s[i] # ","
                 /\ (k < Len(s) => s[k + 1] = ",")
    IN  [i \in 1..n |-> s[i]]

\* s without its leading and trailing white space.
Trimmed(s) ==
    LET a == CHOOSE k \in 1..(Len(s) + 1) :
                 /\ \A i \in 1..(k - 1) : s[i] \in Whitespace
                 /\ (k <= Len(s) => s[k] \notin Whitespace)
        b == CHOOSE k \in 0..Len(s) :
                 /\ \A i \in (k + 1)..Len(s) : s[i] \in Whitespace
                 /\ (k >= 1 => s[k] \notin Whitespace)
    IN  IF a > b THEN <<>> ELSE [i \in 1..(b - a + 1) |-> s[a + i - 1]]

\* The requests that the hook has decided: those in a view and the one
\* answered last, /health apart, which the hook does not judge.
Admitted == { req[w] : w \in { v \in Workers : pc[v] = "view" /\ req[v].path # "/health" } }
Refused == IF last.resp = forbidden THEN {last.req} ELSE {}

\* C10 as stated: the hook admits a request if and only if the allow-list is
\* empty or the resolved address is an exact member of it, the resolved
\* address being the first comma-separated entry of X-Forwarded-For when the
\* header is present and the peer address otherwise.
C10_Resolved(q) == IF q.xff # NoneStr THEN FirstEntry(q.xff) ELSE q.remote_addr

C10_AsStated ==
    /\ \A q \in Admitted : ips_permitidos = {} \/ C10_Resolved(q) \in load_allowed_ips
    /\ \A q \in Refused : ~(ips_permitidos = {} \/ C10_Resolved(q) \in load_allowed_ips)

\* C10 amended: the resolved address is the first comma-separated entry of
\* X-Forwarded-For without its surrounding white space when the header is
\* present and not empty, and the peer address otherwise.
C10_ResolvedAmended(q) ==
    IF q.xff # NoneStr /\ Len(q.xff) > 0 THEN Trimmed(FirstEntry(q.xff)) ELSE q.remote_addr

C10_Amended ==
    /\ \A q \in Admitted :
          ips_permitidos = {} \/ C10_ResolvedAmended(q) \in load_allowed_ips
    /\ \A q \in Refused :
          ~(ips_permitidos = {} \/ C10_ResolvedAmended(q) \in load_allowed_ips)

\* C10 witness: a request whose header names an allowed address first and
\* whose peer address is not allowed was admitted under a non-empty list.
C10_Witness ==
    \E q \in Admitted :
        /\ ips_permitidos # {}
        /\ q.xff # NoneStr /\ Len(q.xff) > 1
        /\ q.remote_addr \notin load_allowed_ips

\* C11: GET /health is answered 200 whatever the caller's address and the
\* allow-list: the hook lets it through without a look at either, it is never
\* answered 403, and no row of the denied-access log is for /health.
C11_HealthAberto ==
    /\ \A w \in Workers :
          (pc[w] = "view" /\ req[w].path = "/health") =>
              (req[w].gate = "skip" /\ req[w].db = {})
    /\ last.req.path = "/health" =>
          (last.resp.status = 200 /\ last.resp.msg = "ok" /\ last.req.db = {})
    /\ \A i \in 1..Len(acessos_negados) : acessos_negados[i].rota # "/health"

\* C11 witness: /health was answered 200 to a caller whose address is not in
\* the non-empty allow-list.
C11_Witness ==
    /\ last.req.path = "/health"
    /\ last.resp.status = 200
    /\ ips_permitidos # {}
    /\ C10_ResolvedAmended(last.req) \notin load_allowed_ips

\* The step in which the hook answers a request itself instead of handing it
\* to a view.
DeniedStep == nreq' # nreq /\ pc' = pc

\* C12: a request that the hook denies is answered with the 403 response
\* whether or not the INSERT into acessos_negados succeeds; the step adds
\* exactly one row, for the address and the path of the request, when the
\* INSERT succeeds and none when it fails; no other step adds a row, and the
\* rows already in the log stay as they are, in their places.
C12_NegadoRegistrado ==
    [][ /\ Len(acessos_negados') >= Len(acessos_negados)
        /\ SubSeq(acessos_negados', 1, Len(acessos_negados)) = acessos_negados
        /\ IF DeniedStep
           THEN /\ last'.req.gate = "denied"
                /\ last'.resp = forbidden
                /\ IF "acessos_negados" \in last'.req.db
                   THEN /\ Len(acessos_negados') = Len(acessos_negados) + 1
                        /\ acessos_negados'[Len(acessos_negados')].ip = last'.req.ip
                        /\ acessos_negados'[Len(acessos_negados')].rota = last'.req.path
                   ELSE acessos_negados' = acessos_negados
           ELSE acessos_negados' = acessos_negados ]_vars

\* C12 witness: after a denial that was logged, a request was denied with the
\* 403 response although its row could not be written.
C12_Witness ==
    /\ Len(acessos_negados) >= 1
    /\ last.req.gate = "denied"
    /\ last.resp = forbidden
    /\ "acessos_negados" \notin last.req.db

\* C13: a record of the ledger is in the ledger after every step, either as it
\* was or, when it had no exit, with an exit and nothing else changed: its
\* entry is never changed, and an exit that is present is never changed or
\* cleared.
C13_RegistroPermanente ==
    [][ \A row \in registros :
          \/ row \in registros'
          \/ /\ row.saida = NULL
             /\ \E t \in Times : [row EXCEPT !.saida = t] \in registros' ]_vars

\* The response of GET /admin that was sent last, and the records of the
\* ledger whose day is within the bounds of that request.
AdminBody == last.resp.body
InRange == { row \in registros :
               /\ (AdminBody.start # 0 => AdminBody.start <= row.dia)
               /\ (AdminBody.end # 0 => row.dia <= AdminBody.end) }

\* The seconds from entry to exit of a record, zero when either is missing or
\* the exit precedes the entry.
Elapsed(row) ==
    IF row.entrada = NULL \/ row.saida = NULL \/ row.saida < row.entrada THEN 0
    ELSE row.saida - row.entrada

RECURSIVE SumElapsed(_)
SumElapsed(rows) ==
    IF rows = {} THEN 0
    ELSE LET row == CHOOSE x \in rows : TRUE
         IN  Elapsed(row) + SumElapsed(rows \ {row})

\* C14: the grand total of GET /admin is the sum over the returned records of
\* exit minus entry in seconds, a record without exit or with an exit before
\* its entry counting zero; such a record never lowers the total, and the
\* total of no records is zero.
C14_TotalSomado ==
    last.req.path = "/admin" =>
        /\ AdminBody.total_seconds = SumElapsed(InRange)
        /\ AdminBody.total_seconds >= 0
        /\ \A row \in InRange :
              /\ AdminBody.total_seconds >= Elapsed(row)
              /\ (row.saida # NULL /\ row.saida < row.entrada) =>
                     AdminBody.total_seconds = SumElapsed(InRange \ {row})
        /\ (InRange = {} => AdminBody.total_seconds = 0)

\* C14 witness: the total of two complete records and one whose exit precedes
\* its entry is the hour and a half (less 31 seconds) of the two.
C14_Witness ==
    /\ last.req.path = "/admin"
    /\ Cardinality(InRange) = 3
    /\ \E row \in InRange : row.saida # NULL /\ row.saida < row.entrada
    /\ AdminBody.total_seconds = 1829 + 3600

\* The text s up to its colon and after it, and the number that a text of
\* decimal digits denotes.
BeforeColon(s) == SubSeq(s, 1, (CHOOSE i \in 1..Len(s) : s[i] = ":") - 1)
AfterColon(s) == SubSeq(s, (CHOOSE i \in 1..Len(s) : s[i] = ":") + 1, Len(s))

RECURSIVE Denotes(_)
Denotes(s) ==
    IF s = <<>> THEN 0
    ELSE 10 * Denotes(SubSeq(s, 1, Len(s) - 1))
         + (CHOOSE d \in 0..9 : DecimalDigit(d) = s[Len(s)])

\* text is seconds rendered as hours:minutes.
RendersHHMM(text, seconds) ==
    /\ Cardinality({ i \in 1..Len(text) : text[i] = ":" }) = 1
    /\ \A i \in 1..Len(text) : text[i] \in AsciiDigits \cup {":"}
    /\ Len(BeforeColon(text)) >= 2
    /\ (Len(BeforeColon(text)) > 2 => BeforeColon(text)[1] # "0")
    /\ Denotes(BeforeColon(text)) = seconds \div 3600
    /\ Len(AfterColon(text)) = 2
    /\ Denotes(AfterColon(text)) = (seconds \div 60) % 60
    /\ Denotes(AfterColon(text)) \in 0..59

\* C15: format_hhmm_from_seconds renders a number of seconds s >= 0 as the
\* hours floor(s/3600), with at least two digits and not reduced modulo 24, a
\* colon, and the minutes floor(s/60) mod 60 with two digits; 90000 seconds
\* are '25:00' and 0 seconds '00:00'.  It is applied to the grand total and
\* to the elapsed time of every listed record with entry and exit.
C15_HorasMinutos ==
    /\ format_hhmm_from_seconds(0) = <<"0", "0", ":", "0", "0">>
    /\ format_hhmm_from_seconds(90000) = <<"2", "5", ":", "0", "0">>
    /\ last.req.path = "/admin" =>
          /\ RendersHHMM(AdminBody.total_tempo, AdminBody.total_seconds)
          /\ \A row \in InRange :
                (row.entrada # NULL /\ row.saida # NULL) =>
                    \E i \in 1..Len(AdminBody.records) :
                        /\ AdminBody.records[i].nome = row.nome
                        /\ AdminBody.records[i].dia = format_ddmmyyyy(row.dia)
                        /\ RendersHHMM(AdminBody.records[i].tempo, Elapsed(row))

\* C15 witness: a total of 25 hours was rendered as '25:00', for a ledger that
\* has, outside the bounds of the request, a record of 100 hours, whose
\* elapsed time is rendered as '100:00'.
C15_Witness ==
    /\ last.req.path = "/admin"
    /\ AdminBody.total_seconds = 90000
    /\ AdminBody.total_tempo = <<"2", "5", ":", "0", "0">>
    /\ \E row \in registros \ InRange :
          Record(row).tempo = <<"1", "0", "0", ":", "0", "0">>

\* The day that a listed record shows.
DayShown(rec) == CHOOSE d \in Days : format_ddmmyyyy(d) = rec.dia

\* The places of the list of GET /admin that show the record row.
PlacesOf(row) ==
    { i \in 1..Len(AdminBody.records) :
          /\ AdminBody.records[i].nome = row.nome
          /\ AdminBody.records[i].dia = format_ddmmyyyy(row.dia)
          /\ AdminBody.records[i].entrada = format_hhmm(row.entrada)
          /\ AdminBody.records[i].saida = format_hhmm(row.saida) }

\* C16: GET /admin lists the records of the ledger whose day is not before
\* start and not after end, a bound that is not given excluding nothing: each
\* of them once and no other, later days first and, within a day, in the
\* ascending order of the names; the count reported is the length of the
\* list.
C16_ListaOrdenada ==
    last.req.path = "/admin" =>
        /\ Len(AdminBody.records) = Cardinality(InRange)
        /\ \A row \in InRange : Cardinality(PlacesOf(row)) = 1
        /\ \A i \in 1..Len(AdminBody.records) : \E row \in InRange : i \in PlacesOf(row)
        /\ \A i \in 1..Len(AdminBody.records), j \in 1..Len(AdminBody.records) :
              i < j =>
                  \/ DayShown(AdminBody.records[i]) > DayShown(AdminBody.records[j])
                  \/ /\ DayShown(AdminBody.records[i]) = DayShown(AdminBody.records[j])
                     /\ Collate(AdminBody.records[i].nome) <= Collate(AdminBody.records[j].nome)
        /\ AdminBody.total_registros = Len(AdminBody.records)

\* C16 witness: with start given and end not, the list is Ana and then Bia for
\* the day start, and the record of the day before is left out.
C16_Witness ==
    /\ last.req.path = "/admin"
    /\ AdminBody.start = MaxDay /\ AdminBody.end = 0
    /\ Cardinality(registros) = 3
    /\ Len(AdminBody.records) = 2
    /\ AdminBody.records[1].nome = "Ana" /\ AdminBody.records[2].nome = "Bia"
    /\ AdminBody.records[1].dia = AdminBody.records[2].dia

\* Worker w ends its registrar_entrada in this step.
EntradaEnds(w) == pc[w] = "entrada_write" /\ pc'[w] = "idle"

\* C17: of the recordEntry requests for a person and day that read 'no
\* record', the first to write inserts the record and returns success; one
\* that writes after a record for the key was committed ends as a server
\* error, with neither a success nor an 'already clocked in' flash, and
\* leaves the ledger, and so the committed entry, unchanged; at most one of
\* them ever succeeds.
C17_CorridaEntrada ==
    [][ \A w \in Workers :
          (EntradaEnds(w) /\ loc[w].r = NoRow) =>
              /\ IF Matching(registros, loc[w].cpf, loc[w].hoje) = {}
                 THEN /\ Answered(w, Redirect(TRUE, MsgEntradaOk))
                      /\ registros' = registros \cup
                            { [cpf |-> loc[w].cpf, dia |-> loc[w].hoje, nome |-> loc[w].nome,
                               entrada |-> loc[w].agora, saida |-> NULL] }
                 ELSE /\ Answered(w, ServerError)
                      /\ last'.resp.status = 500
                      /\ last'.resp.cat \notin {"success", "error"}
                      /\ last'.resp.msg \notin {MsgEntradaOk, MsgEntradaJa}
                      /\ registros' = registros
                      /\ sucessos' = sucessos
              /\ sucessos'[<<loc[w].cpf, loc[w].hoje, "entrada">>] <= 1 ]_vars

\* C17 witness: a recordEntry ended as a server error, and exactly one
\* recordEntry of that person has succeeded for the day of the record.
C17_Witness ==
    /\ last.resp = ServerError
    /\ last.req.action = "entrada"
    /\ \E row \in registros :
          /\ row.cpf = only_digits(last.req.cpf)
          /\ row.entrada # NULL
          /\ sucessos[<<row.cpf, row.dia, "entrada">>] = 1

\* C18: every record of the ledger has an entry, and a registrar_entrada that
\* goes on to write has read no record: the UPDATE of its branch 'record
\* without entry' is never executed.
C18_EntradaPresente ==
    /\ \A row \in registros : row.entrada # NULL
    /\ \A w \in Workers : pc[w] = "entrada_write" => loc[w].r = NoRow

\* C18 witness: a registrar_entrada is about to write while the ledger holds
\* a record with entry and exit.
C18_Witness ==
    /\ \E w \in Workers : pc[w] = "entrada_write"
    /\ \E row \in registros : row.entrada # NULL /\ row.saida # NULL

\* The records of regs of other persons than cpf or of other days than dia.
Others(regs, cpf, dia) == { row \in regs : row.cpf # cpf \/ row.dia # dia }

\* C19: the write of a punch by a person on a day leaves the records of
\* every other person, and the records of that person for every other day,
\* as they are; the rest of a punch writes nothing.  A recordExit on a day
\* for which the person has no entry returns 'Nao ha entrada registrada
\* hoje.' and leaves an earlier day's record without exit as it is.
C19_OutrosRegistros ==
    [][ \A w \in Workers :
          /\ (pc[w] \in {"entrada_write", "saida_write"} /\ pc'[w] = "idle") =>
                 Others(registros', loc[w].cpf, loc[w].hoje)
                     = Others(registros, loc[w].cpf, loc[w].hoje)
          /\ RegistrarStep(w) => registros' = registros
          /\ (RegistrarStep(w) /\ Authenticated(Served(w)) /\ Served(w).action # "entrada") =>
                 /\ pc'[w] = "saida_write" =>
                        (loc'[w].hoje = today /\ loc'[w].cpf = only_digits(Served(w).cpf))
                 /\ SelectRegistro(registros, only_digits(Served(w).cpf), today) = NoRow =>
                        Answered(w, Redirect(FALSE, MsgSemEntrada)) ]_vars

\* C19 witness: a recordExit was refused for want of an entry on a day after
\* the day of a record of that person that has an entry and no exit.
C19_Witness ==
    /\ last.resp = Redirect(FALSE, MsgSemEntrada)
    /\ last.req.action # "entrada"
    /\ SelectRegistro(registros, only_digits(last.req.cpf), today) = NoRow
    /\ \E row \in registros :
          /\ row.cpf = only_digits(last.req.cpf)
          /\ row.dia < today
          /\ row.entrada # NULL /\ row.saida = NULL

\* C20: an authenticated POST /registrar is a recordEntry when its action
\* field is 'entrada' and a recordExit for every other value of the field,
\* 'saida', a value unknown to the form, or none: only a request with
\* 'entrada' gets to the INSERT or to an answer of registrar_entrada, and
\* every other request gets to the UPDATE of the exit or to an answer of
\* registrar_saida.
C20_SoEntradaEntra ==
    /\ \A w \in Workers :
          /\ pc[w] = "entrada_write" => req[w].action = "entrada"
          /\ pc[w] = "saida_write" => req[w].action \in Actions \ {"entrada"}
    /\ (last.req.path = "/registrar" /\ "registros" \in last.req.db) =>
          IF last.req.action = "entrada"
          THEN last.resp \in { Redirect(TRUE, MsgEntradaOk), Redirect(FALSE, MsgEntradaJa),
                               ServerError }
          ELSE last.resp \in { Redirect(TRUE, MsgSaidaOk), Redirect(FALSE, MsgSaidaJa),
                               Redirect(FALSE, MsgSemEntrada) }

\* C20 witness: a request without an action field recorded an exit.
C20_Witness ==
    /\ last.req.action = "None"
    /\ last.resp = Redirect(TRUE, MsgSaidaOk)
    /\ HasSaida(registros, only_digits(last.req.cpf), today)

====
